---- MODULE Spec2Model ----
(***************************************************************************)
(* Session / connection lifecycle of ChatApp (static/js/chat.js).          *)
(*                                                                         *)
(* The browser runs one handler at a time.  Every action below is one      *)
(* event-loop task (or one promise continuation) and performs the whole    *)
(* handler the code runs for it.  Handlers are written as operators on a   *)
(* record holding the program state, so that a handler that calls another  *)
(* one is the composition of the two operators.                            *)
(***************************************************************************)
EXTENDS Integers, Sequences, FiniteSets, TLC

\* ------------------------------------------------------------------ bounds
MaxFetches == 2      \* getToken() calls made by connect(); each yields at most one socket
MaxOut     == 1      \* envelopes a socket carries after its auth envelope
MaxLog     == 2      \* entries of the message log
MaxEvents  == 2      \* entries of uiEvents
MaxSignOut == 2      \* Clerk.signOut() calls the app makes in one sign-in cycle
MaxPending == 1      \* Clerk.signOut() calls in flight

Langs    == {"en", "es"}
Contents == {"hello"}     \* what the user types
Replies  == {"hi"}        \* what the backend answers

\* ------------------------------------------------------------- state
VARIABLES
    \* ChatApp fields (constructor, lines 50-58)
    socket,          \* this.socket: 0 is null, else an index into sockets
    clerkUser,       \* this.clerkUser is not null
    language,        \* this.language
    isConnected,     \* this.isConnected
    isConnecting,    \* this.isConnecting
    clerkMounted,    \* this.clerkMounted
    authHandled,     \* this.authHandled
    \* the page
    screen,          \* which of loginScreen / portalScreen is displayed
    authErrorShown,  \* #authErrorContainer is displayed
    inputEnabled,    \* messageInput / sendButton are enabled
    messages,        \* children of #chatMessages: <<role, content>>
    candidateData,   \* this.candidateData
    sidebarUserRole, \* the language #sidebarUserRole names, "" as the page ships
    progress,        \* #progressPercent / #progressFill
    verticalTimeline,\* the rows of #verticalTimeline: their class names
    \* the runtime
    sockets,         \* every WebSocket created so far
    connectCalls,    \* connect() calls suspended at line 309: their fetch ids
    loads,           \* loadCandidateData() calls suspended at an await
    timers,          \* pending setTimeout callbacks of line 344
    \* the identity provider
    initDone,        \* initClerk() has run
    clerkLoaded,     \* window.Clerk exists
    clerkSession,    \* window.Clerk.session / window.Clerk.user exist
    listening,       \* the listener of line 106 is registered
    pendingSignOuts, \* Clerk.signOut() calls that have not completed
    nextFetch,       \* id of the next getToken() call of connect()
    \* history
    signOutCalls,    \* Clerk.signOut() calls the app made since the last sign-in
    uiEvents,        \* what the page was made to show, in order: quick actions,
                     \* assistant messages, the typing indicator
    threw,           \* the last handler ended in an uncaught exception
    lastOp,          \* the last handler, when it is connect() or its continuation
    scen             \* how far the run has followed Scenario, -1 once it left it

vars == <<socket, clerkUser, language, isConnected, isConnecting,
          clerkMounted, authHandled, screen, authErrorShown, inputEnabled,
          messages, candidateData, sidebarUserRole, progress, verticalTimeline,
          sockets, connectCalls,
          loads, timers, initDone, clerkLoaded, clerkSession, listening,
          pendingSignOuts, nextFetch, signOutCalls, uiEvents, threw, lastOp, scen>>

\* The state as one record, for the handlers to transform.
Cur ==
    [socket |-> socket, clerkUser |-> clerkUser,
     language |-> language, isConnected |-> isConnected,
     isConnecting |-> isConnecting, clerkMounted |-> clerkMounted,
     authHandled |-> authHandled, screen |-> screen,
     authErrorShown |-> authErrorShown, inputEnabled |-> inputEnabled,
     messages |-> messages, candidateData |-> candidateData,
     sidebarUserRole |-> sidebarUserRole, progress |-> progress,
     verticalTimeline |-> verticalTimeline,
     sockets |-> sockets, connectCalls |-> connectCalls,
     loads |-> loads, timers |-> timers, initDone |-> initDone,
     clerkLoaded |-> clerkLoaded, clerkSession |-> clerkSession,
     listening |-> listening, pendingSignOuts |-> pendingSignOuts,
     nextFetch |-> nextFetch, signOutCalls |-> signOutCalls,
     uiEvents |-> uiEvents, threw |-> FALSE, lastOp |-> lastOp]

\* The handshake scenario: sign-in with a credential, the token arrives, the
\* socket opens, auth_success, send("hello"), inbound message "hi".
Scenario ==
    <<"signIn", "connectToken", "onopen", "onmessage:auth_success",
      "sendMessage:hello", "onmessage:message:hi">>

\* Steps of loadCandidateData that leave the session alone do not end it.
Neutral == {"load:done"}

Tracked == {"connect", "connectNoToken", "onmessage:malformed"}

Apply(s, op) ==
    /\ socket' = s.socket
    /\ clerkUser' = s.clerkUser
    /\ language' = s.language
    /\ isConnected' = s.isConnected
    /\ isConnecting' = s.isConnecting
    /\ clerkMounted' = s.clerkMounted
    /\ authHandled' = s.authHandled
    /\ screen' = s.screen
    /\ authErrorShown' = s.authErrorShown
    /\ inputEnabled' = s.inputEnabled
    /\ messages' = s.messages
    /\ candidateData' = s.candidateData
    /\ sidebarUserRole' = s.sidebarUserRole
    /\ progress' = s.progress
    /\ verticalTimeline' = s.verticalTimeline
    /\ sockets' = s.sockets
    /\ connectCalls' = s.connectCalls
    /\ loads' = s.loads
    /\ timers' = s.timers
    /\ initDone' = s.initDone
    /\ clerkLoaded' = s.clerkLoaded
    /\ clerkSession' = s.clerkSession
    /\ listening' = s.listening
    /\ pendingSignOuts' = s.pendingSignOuts
    /\ nextFetch' = s.nextFetch
    /\ signOutCalls' = s.signOutCalls
    /\ uiEvents' = s.uiEvents
    /\ threw' = s.threw
    /\ lastOp' = IF op \in Tracked THEN op ELSE "other"
    /\ scen' = IF op \in Neutral THEN scen
               ELSE IF scen >= 0 /\ scen < Len(Scenario) /\ Scenario[scen + 1] = op
                    THEN scen + 1
               ELSE -1

\* ------------------------------------------------------------ envelopes
\* JSON envelopes of the wire protocol; a field an envelope lacks is 0 / "".
Envelope(type, token, lang, content) ==
    [type |-> type, token |-> token, language |-> lang, content |-> content]

AuthEnvelope(token, lang)   == Envelope("auth", token, lang, "")
MessageEnvelope(content)    == Envelope("message", 0, "", content)
SetLanguageEnvelope(lang)   == Envelope("set_language", 0, lang, "")
NewConversationEnvelope     == Envelope("new_conversation", 0, "", "")

\* What the backend may deliver: event.data before JSON.parse.  "malformed" is
\* a payload JSON.parse rejects; reason / status ride in the content field.
Inbound ==
    {Envelope("auth_success", 0, "", ""),
     Envelope("auth_failed", 0, "", "email_not_registered"),
     Envelope("auth_failed", 0, "", "other"),
     Envelope("typing", 0, "", "on"),
     Envelope("typing", 0, "", ""),
     Envelope("malformed", 0, "", "")}
    \cup {Envelope("message", 0, "", c) : c \in Replies}

\* A WebSocket: readyState, the token its handlers closed over (line 309), what
\* has been sent on it, the last auth_* envelope delivered on it, and whether
\* its error event has fired with the close event still to come.
NewSocket(token) ==
    [state |-> "CONNECTING", token |-> token, outbox |-> <<>>, hs |-> "none",
     errPending |-> FALSE]

\* A socket whose close event has been delivered: nothing can happen on it any
\* more, and of its history only the token is kept (SocketClose).
ClosedSocket ==
    [state |-> "CLOSED", token |-> 0, outbox |-> <<>>, hs |-> "none",
     errPending |-> FALSE]


\* ------------------------------------------------------------ sidebar
\* The keys of APPLICATION_STAGES (lines 38-47), in order.
APPLICATION_STAGES ==
    <<"Application Review", "Candidate Interview", "Candidate Language Assessment",
      "Candidate ID/Background Verification", "Contract & Payment Setup",
      "Training Required", "Client Tool Orientation",
      "Interpreter Ready for Production">>

\* A stage as /api/candidate-data may give it: absent (null / undefined), or a
\* string: a key of the vocabulary, the empty string, or something else (a
\* label, a key in another case, a stage the page does not know).
NoStage == [given |-> FALSE, key |-> ""]
StageInputs ==
    {NoStage}
    \cup {[given |-> TRUE, key |-> APPLICATION_STAGES[i]] : i \in DOMAIN APPLICATION_STAGES}
    \cup {[given |-> TRUE, key |-> k] : k \in {"", "Interview", "candidate interview", "Hired"}}

\* this.candidateData is null.
NoData == [loaded |-> FALSE, stage |-> NoStage, progress_percent |-> -1, language |-> ""]

\* The bodies of a 200 response; progress_percent -1 and language "" are
\* fields the body lacks.
CandidateData ==
    [loaded : {TRUE}, stage : StageInputs, progress_percent : {-1, 0, 50, 100},
     language : {"", "Spanish"}]

\* Array.prototype.findIndex over the keys, from position i on; indices are
\* those of the code (from 0), -1 when no key matches.
RECURSIVE findIndex(_, _)
findIndex(key, i) ==
    IF i > Len(APPLICATION_STAGES) THEN -1
    ELSE IF APPLICATION_STAGES[i] = key THEN i - 1
    ELSE findIndex(key, i + 1)

\* A row whose class marks the current stage as completed too.
timelineRow_inclusive(index, currentIndex) ==
    [completed |-> index <= currentIndex, active |-> index = currentIndex]

\* The class name of one row (line 269).
timelineRow(index, currentIndex) ==
    [completed |-> index < currentIndex, active |-> index = currentIndex]

\* renderVerticalTimeline (lines 264-274); the labels, which take the language,
\* are not kept.
renderVerticalTimeline(s, currentStage) ==
    LET currentIndex == IF currentStage.given /\ currentStage.key # ""
                        THEN findIndex(currentStage.key, 1)
                        ELSE -1
    IN  [s EXCEPT !.verticalTimeline =
            [index \in DOMAIN APPLICATION_STAGES |-> timelineRow(index - 1, currentIndex)]]

\* updateSidebar (lines 255-262).
updateSidebar(s) ==
    IF ~s.candidateData.loaded THEN s
    ELSE LET a == IF s.candidateData.language # ""
                  THEN [s EXCEPT !.sidebarUserRole = s.candidateData.language]
                  ELSE s
             b == [a EXCEPT !.progress = IF s.candidateData.progress_percent = -1
                                         THEN 0
                                         ELSE s.candidateData.progress_percent]
         IN  renderVerticalTimeline(b, s.candidateData.stage)

\* ------------------------------------------------- page helpers (pure DOM)
hideAuthError(s)       == [s EXCEPT !.authErrorShown = FALSE]
showAuthError(s)       == [s EXCEPT !.authErrorShown = TRUE]
showPortal(s)          == [s EXCEPT !.screen = "portal"]
setInputEnabled(s, enabled) == [s EXCEPT !.inputEnabled = enabled]
addMessage(s, content, role) == [s EXCEPT !.messages = Append(@, <<role, content>>)]

\* The page is made to show something: uiEvents records it.
notify(s, type, content) ==
    [s EXCEPT !.uiEvents = Append(@, [type |-> type, content |-> content])]

\* showQuickActions is what the page shows of a successful handshake (line 325).
showQuickActions(s)    == notify(s, "ready", "")
showTypingIndicator(s) == notify(s, "typing", "")

showSignIn(s) ==
    LET a == hideAuthError([s EXCEPT !.screen = "login"])
    IN  IF a.clerkLoaded /\ ~a.clerkMounted
        THEN [a EXCEPT !.clerkMounted = TRUE]
        ELSE a

\* ------------------------------------------------------------ WebSocket
\* WebSocket.close(): a socket that is connecting or open starts closing.
closeSocket(sk) ==
    IF sk.state \in {"CONNECTING", "OPEN"} THEN [sk EXCEPT !.state = "CLOSING"] ELSE sk

\* this.socket.send(JSON.stringify(env)): a TypeError on null, an
\* InvalidStateError while connecting, dropped once closing or closed.
socketSend(s, env) ==
    IF s.socket = 0 THEN [s EXCEPT !.threw = TRUE]
    ELSE IF s.sockets[s.socket].state = "CONNECTING" THEN [s EXCEPT !.threw = TRUE]
    ELSE IF s.sockets[s.socket].state = "OPEN"
         THEN [s EXCEPT !.sockets[s.socket].outbox = Append(@, env)]
    ELSE s

\* Clerk.signOut() as the app calls it on an unverified identity: the call is
\* counted and completes later (ClerkSignOutDone).
clerkSignOut(s) ==
    IF s.clerkLoaded
    THEN [s EXCEPT !.pendingSignOuts = @ + 1, !.signOutCalls = @ + 1]
    ELSE s

\* --------------------------------------------------------------- ChatApp
\* getSessionToken, line 234: null at once without a Clerk session.
HasSession(s) == s.clerkLoaded /\ s.clerkSession

\* connect() without the guard of line 306.
connect_noGuard(s) ==
    IF ~HasSession(s) THEN [s EXCEPT !.isConnecting = FALSE]
    ELSE [s EXCEPT !.isConnecting = TRUE,
                   !.connectCalls = Append(@, s.nextFetch),
                   !.nextFetch = @ + 1]

\* connect() holding on to the credential: every call gets the same one.
connect_cachedToken(s) ==
    IF s.isConnecting \/ s.isConnected THEN s
    ELSE IF ~HasSession(s) THEN [s EXCEPT !.isConnecting = FALSE]
    ELSE [s EXCEPT !.isConnecting = TRUE,
                   !.connectCalls = Append(@, s.nextFetch)]

\* connect() up to its await (lines 305-309).  Without a Clerk session the
\* token is null and the continuation (line 310) runs before any other task.
connect(s) ==
    IF s.isConnecting \/ s.isConnected THEN s
    ELSE IF ~HasSession(s) THEN [s EXCEPT !.isConnecting = FALSE]
    ELSE [s EXCEPT !.isConnecting = TRUE,
                   !.connectCalls = Append(@, s.nextFetch),
                   !.nextFetch = @ + 1]

RemoveAt(q, k) == SubSeq(q, 1, k - 1) \o SubSeq(q, k + 1, Len(q))

\* connect() after its await, returning on a null token without line 310's
\* reset of isConnecting.
connectResume_keepsConnecting(s, k, token) ==
    LET a == [s EXCEPT !.connectCalls = RemoveAt(@, k)]
    IN  IF token = 0 THEN a
        ELSE [a EXCEPT !.sockets = Append(@, NewSocket(token)),
                       !.socket = Len(a.sockets) + 1]

\* connect() after its await, trying again later when the token is null.
connectResume_retries(s, k, token) ==
    LET a == [s EXCEPT !.connectCalls = RemoveAt(@, k)]
    IN  IF token = 0 THEN [a EXCEPT !.isConnecting = FALSE, !.timers = @ + 1]
        ELSE [a EXCEPT !.sockets = Append(@, NewSocket(token)),
                       !.socket = Len(a.sockets) + 1]

\* connect() after its await (lines 310-347); token 0 is null.  The handlers
\* it installs are onopen / onmessage / onclose / onerror below.
connectResume(s, k, token) ==
    LET a == [s EXCEPT !.connectCalls = RemoveAt(@, k)]
    IN  IF token = 0 THEN [a EXCEPT !.isConnecting = FALSE]
        ELSE [a EXCEPT !.sockets = Append(@, NewSocket(token)),
                       !.socket = Len(a.sockets) + 1]

\* onopen that leaves isConnecting as it was.
onopen_keepsConnecting(s, token) ==
    LET a == setInputEnabled([s EXCEPT !.isConnected = TRUE], TRUE)
    IN  socketSend(a, AuthEnvelope(token, a.language))

\* onopen that sends no auth envelope.
onopen_noAuth(s, token) ==
    setInputEnabled([s EXCEPT !.isConnected = TRUE, !.isConnecting = FALSE], TRUE)

onopen(s, token) ==
    LET a == setInputEnabled([s EXCEPT !.isConnected = TRUE, !.isConnecting = FALSE], TRUE)
    IN  socketSend(a, AuthEnvelope(token, a.language))

\* onmessage that signs out on auth_failed whatever the reason.
onmessage_anyReasonSignsOut(s, data) ==
    IF data.type = "malformed" THEN [s EXCEPT !.threw = TRUE]
    ELSE IF data.type = "auth_success" THEN showQuickActions(s)
    ELSE IF data.type = "auth_failed" THEN showAuthError(showSignIn(clerkSignOut(s)))
    ELSE IF data.type = "message"
        THEN notify(addMessage(s, data.content, "assistant"),
                    "messageReceived", data.content)
    ELSE IF data.type = "typing" /\ data.content # ""
        THEN showTypingIndicator(s)
    ELSE s

\* onmessage whose auth_success branch shows nothing.
onmessage_silentSuccess(s, data) ==
    IF data.type = "malformed" THEN [s EXCEPT !.threw = TRUE]
    ELSE IF data.type = "auth_success" THEN s
    ELSE IF data.type = "auth_failed" THEN
        IF data.content = "email_not_registered"
        THEN showAuthError(showSignIn(clerkSignOut(s)))
        ELSE s
    ELSE IF data.type = "message"
        THEN notify(addMessage(s, data.content, "assistant"),
                    "messageReceived", data.content)
    ELSE IF data.type = "typing" /\ data.content # ""
        THEN showTypingIndicator(s)
    ELSE s

onmessage(s, data) ==
    IF data.type = "malformed" THEN [s EXCEPT !.threw = TRUE]
    ELSE IF data.type = "auth_success" THEN showQuickActions(s)
    ELSE IF data.type = "auth_failed" THEN
        IF data.content = "email_not_registered"
        THEN showAuthError(showSignIn(clerkSignOut(s)))
        ELSE s
    ELSE IF data.type = "message"
        THEN notify(addMessage(s, data.content, "assistant"),
                    "messageReceived", data.content)
    ELSE IF data.type = "typing" /\ data.content # ""
        THEN showTypingIndicator(s)
    ELSE s

onclose(s) ==
    LET a == setInputEnabled([s EXCEPT !.isConnected = FALSE, !.isConnecting = FALSE], FALSE)
    IN  [a EXCEPT !.timers = @ + 1]

onerror(s) == [s EXCEPT !.isConnecting = FALSE]

\* The callback of line 344.
reconnectTimer(s) ==
    LET a == [s EXCEPT !.timers = @ - 1]
    IN  IF a.clerkUser /\ ~a.isConnected THEN connect(a) ELSE a

\* loadCandidateData() up to its first await (lines 238-240); without a Clerk
\* session the token is null and it returns.
loadCandidateData(s) ==
    IF ~HasSession(s) THEN s ELSE [s EXCEPT !.loads = Append(@, "fetch")]

onUserSignedIn(s) ==
    LET a == IF s.clerkMounted /\ s.clerkLoaded THEN [s EXCEPT !.clerkMounted = FALSE] ELSE s
        b == showPortal(hideAuthError(a))
        c == IF ~b.isConnected /\ ~b.isConnecting THEN connect(b) ELSE b
    IN  loadCandidateData(c)

onUserSignedOut(s) ==
    LET a == [s EXCEPT !.clerkUser = FALSE, !.authHandled = FALSE,
                       !.isConnected = FALSE, !.isConnecting = FALSE]
        b == IF a.socket # 0
             THEN [a EXCEPT !.sockets[a.socket] = closeSocket(@), !.socket = 0]
             ELSE a
    IN  showSignIn(b)

\* The listener of lines 106-115; user is resources.user being set.
clerkListener(s, user) ==
    IF s.authHandled THEN s
    ELSE IF user
         THEN onUserSignedIn([s EXCEPT !.authHandled = TRUE, !.clerkUser = TRUE])
         ELSE onUserSignedOut(s)

\* initClerk (lines 94-124): addListener registers the listener, which Clerk
\* calls on later changes.
initClerk(s) ==
    IF ~s.clerkLoaded THEN showSignIn([s EXCEPT !.initDone = TRUE])
    ELSE LET a == [s EXCEPT !.initDone = TRUE, !.listening = TRUE]
         IN  IF a.clerkSession
             THEN onUserSignedIn([a EXCEPT !.authHandled = TRUE, !.clerkUser = TRUE])
             ELSE showSignIn(a)

setLanguage(s, lang) ==
    LET a == [s EXCEPT !.language = lang]
        b == IF a.candidateData.loaded
             THEN renderVerticalTimeline(a, a.candidateData.stage)
             ELSE a
    IN  IF b.socket # 0 /\ b.isConnected
        THEN socketSend(b, SetLanguageEnvelope(lang))
        ELSE b

sendMessage(s, content) ==
    IF content = "" \/ ~s.isConnected THEN s
    ELSE socketSend(addMessage(s, content, "user"),
                    MessageEnvelope(content))

newConversation(s) ==
    IF s.socket # 0 /\ s.isConnected
    THEN socketSend(showQuickActions([s EXCEPT !.messages = <<>>]),
                    NewConversationEnvelope)
    ELSE s

\* Clerk ends the session and tells its listeners.
clerkSignedOut(s) ==
    LET a == [s EXCEPT !.clerkSession = FALSE]
    IN  IF a.listening THEN clerkListener(a, FALSE) ELSE a

\* Clerk starts a session and tells its listeners; a new sign-in cycle.
clerkSignedIn(s) ==
    LET a == [s EXCEPT !.clerkSession = TRUE, !.signOutCalls = 0]
    IN  IF a.listening THEN clerkListener(a, TRUE) ELSE a

\* loadCandidateData() resumed (lines 240-251).  Suspended at "fetch" (the
\* token, then the response), the outcome is "done" (no token, a 200 whose
\* body only feeds the sidebar, another status, or an exception caught at
\* line 252) or "403"; suspended at "signOut", Clerk.signOut() has resolved.
loadResume(s, k, outcome) ==
    IF outcome = "403"
    THEN [s EXCEPT !.loads[k] = "signOut", !.signOutCalls = @ + 1]
    ELSE IF outcome = "signedOut"
    THEN showAuthError(showSignIn(clerkSignedOut([s EXCEPT !.loads = RemoveAt(@, k)])))
    ELSE [s EXCEPT !.loads = RemoveAt(@, k)]

\* loadCandidateData() resumed with a 200 response (lines 243-246); the cards
\* of updateInfoPanel are not kept.
loadData(s, k, data) ==
    updateSidebar([s EXCEPT !.loads = RemoveAt(@, k), !.candidateData = data])

\* --------------------------------------------------------------- actions
\* The constructor, and init() up to its call of initClerk (lines 50-90).
Init ==
    /\ socket = 0 /\ clerkUser = FALSE
    /\ language \in Langs
    /\ isConnected = FALSE /\ isConnecting = FALSE
    /\ clerkMounted = FALSE /\ authHandled = FALSE
    /\ screen = "none" /\ authErrorShown = FALSE /\ inputEnabled = FALSE
    /\ messages = <<>>
    /\ candidateData = NoData /\ sidebarUserRole = "" /\ progress = 0
    /\ verticalTimeline =
          [index \in DOMAIN APPLICATION_STAGES |-> timelineRow(index - 1, -1)]
    /\ sockets = <<>> /\ connectCalls = <<>> /\ loads = <<>> /\ timers = 0
    /\ initDone = FALSE
    /\ clerkLoaded \in BOOLEAN /\ clerkSession \in BOOLEAN
    /\ (clerkSession => clerkLoaded)
    /\ listening = FALSE /\ pendingSignOuts = 0 /\ nextFetch = 1
    /\ signOutCalls = 0 /\ uiEvents = <<>> /\ threw = FALSE /\ lastOp = "other" /\ scen = 0

\* An error event has fired and its close event comes next in the same task:
\* only promise continuations can run in between.
ErrPending == \E i \in DOMAIN sockets : sockets[i].errPending

\* A new task can start.
Idle == initDone /\ ~ErrPending

\* connect() may still fetch a token.
FetchRoom == nextFetch <= MaxFetches

\* What socket i carried after its auth envelope.
Sent(i) == Cardinality({j \in DOMAIN sockets[i].outbox : sockets[i].outbox[j].type # "auth"})

\* A UI action may still send on the current socket.
OutRoom == IF socket = 0 THEN TRUE ELSE Sent(socket) < MaxOut

\* The message log / uiEvents may still grow.
LogRoom   == Len(messages) < MaxLog
EventRoom == Len(uiEvents) < MaxEvents

InitClerk ==
    /\ ~initDone
    /\ Apply(initClerk(Cur), IF clerkSession THEN "signIn" ELSE "initClerk")

\* connect() called by the page (window.chatApp.connect()).
Connect ==
    /\ Idle /\ FetchRoom
    /\ Apply(connect(Cur), "connect")

\* The token of a suspended connect() arrives: the fetch's token, or null.
ConnectResume ==
    /\ initDone
    /\ \E k \in DOMAIN connectCalls : \E token \in {0, connectCalls[k]} :
          Apply(connectResume(Cur, k, token), IF token = 0 THEN "connectNoToken" ELSE "connectToken")

SocketOpen ==
    /\ Idle
    /\ \E i \in DOMAIN sockets :
          /\ sockets[i].state = "CONNECTING"
          /\ Apply(onopen([Cur EXCEPT !.sockets[i].state = "OPEN"], sockets[i].token), "onopen")

\* An envelope of D is delivered on an open socket.
Deliver(D) ==
    /\ Idle
    /\ \E i \in DOMAIN sockets : \E data \in D :
          /\ sockets[i].state \in {"OPEN", "CLOSING"}
          /\ data.type = "message" => LogRoom
          /\ data.type \in {"message", "auth_success", "typing"} => EventRoom
          /\ data = Envelope("auth_failed", 0, "", "email_not_registered") =>
                signOutCalls < MaxSignOut /\ pendingSignOuts < MaxPending
          /\ Apply(onmessage([Cur EXCEPT !.sockets[i].hs =
                                 IF data.type = "auth_success" THEN "success"
                                 ELSE IF data.type = "auth_failed" THEN data.content
                                 ELSE @], data),
                   IF data.type = "auth_success" THEN "onmessage:auth_success"
                   ELSE IF data.type = "message" THEN "onmessage:message:" \o data.content
                   ELSE IF data.type = "malformed" THEN "onmessage:malformed"
                   ELSE "onmessage")

SocketMessage == Deliver(Inbound)

\* The backend answers the auth envelope, or sends a payload that does not parse.
HandshakeInbound == {d \in Inbound : d.type \in {"auth_success", "auth_failed", "malformed"}}
SocketHandshake == Deliver(HandshakeInbound)

\* The connection fails: readyState is CLOSED, error fires, close follows.
SocketError ==
    /\ Idle
    /\ \E i \in DOMAIN sockets :
          /\ sockets[i].state # "CLOSED"
          /\ Apply(onerror([Cur EXCEPT !.sockets[i].state = "CLOSED",
                                       !.sockets[i].errPending = TRUE]), "onerror")

\* The close event: after an error, or of a connection that closes cleanly.
SocketClose ==
    /\ initDone
    /\ \E i \in DOMAIN sockets :
          /\ \/ sockets[i].errPending
             \/ ~ErrPending /\ sockets[i].state \in {"OPEN", "CLOSING"}
          /\ Apply(onclose([Cur EXCEPT !.sockets[i] =
                                   [ClosedSocket EXCEPT !.token = sockets[i].token]]),
                   "onclose")

ReconnectTimer ==
    /\ Idle /\ FetchRoom
    /\ timers > 0
    /\ Apply(reconnectTimer(Cur), "timer")

SetLanguage ==
    /\ Idle /\ OutRoom
    /\ \E lang \in Langs : Apply(setLanguage(Cur, lang), "setLanguage")

SendMessage ==
    /\ Idle /\ OutRoom /\ LogRoom
    /\ \E content \in Contents \cup {""} : Apply(sendMessage(Cur, content), "sendMessage:" \o content)

NewConversation ==
    /\ Idle /\ OutRoom /\ EventRoom
    /\ Apply(newConversation(Cur), "newConversation")

\* logout() of line 390.
Logout ==
    /\ Idle
    /\ clerkLoaded /\ pendingSignOuts < MaxPending
    /\ Apply([Cur EXCEPT !.pendingSignOuts = @ + 1], "logout")

\* A Clerk.signOut() that was not awaited completes.
ClerkSignOutDone ==
    /\ Idle
    /\ pendingSignOuts > 0
    /\ Apply(clerkSignedOut([Cur EXCEPT !.pendingSignOuts = @ - 1]), "clerkSignedOut")

\* The user signs in (the mounted widget, or another tab).
ClerkSignIn ==
    /\ Idle
    /\ clerkLoaded /\ ~clerkSession
    /\ Apply(clerkSignedIn(Cur), "clerkSignedIn")

\* Clerk tells its listeners of a change that is not a sign-in or sign-out.
ClerkEmit ==
    /\ Idle
    /\ listening
    /\ Apply(clerkListener(Cur, clerkSession), "clerkEmit")

LoadResume ==
    /\ initDone
    /\ \E k \in DOMAIN loads : \E outcome \in {"done", "403", "signedOut"} :
          /\ loads[k] = "fetch"   => outcome \in {"done", "403"}
          /\ loads[k] = "signOut" => outcome = "signedOut"
          /\ outcome = "403" => signOutCalls < MaxSignOut
          /\ Apply(loadResume(Cur, k, outcome), "load:" \o outcome)

\* /api/candidate-data answers 200 with a body.
LoadOk ==
    /\ initDone
    /\ \E k \in DOMAIN loads : \E data \in CandidateData :
          /\ loads[k] = "fetch"
          /\ Apply(loadData(Cur, k, data), "load:done")

Next ==
    \/ InitClerk
    \/ Connect
    \/ ConnectResume
    \/ SocketOpen
    \/ SocketMessage
    \/ SocketError
    \/ SocketClose
    \/ ReconnectTimer
    \/ SetLanguage
    \/ SendMessage
    \/ NewConversation
    \/ Logout
    \/ ClerkSignOutDone
    \/ ClerkSignIn
    \/ ClerkEmit
    \/ LoadResume

Spec == Init /\ [][Next]_vars

\* The session without chat traffic: no action of the page that only sends or
\* logs (sendMessage, setLanguage, newConversation), and of the inbound
\* envelopes only those that bear on the handshake.  None of the actions left
\* out writes isConnected, isConnecting, socket, a socket's readyState,
\* connectCalls, timers or the identity provider's state.
NextSession ==
    \/ InitClerk
    \/ Connect
    \/ ConnectResume
    \/ SocketOpen
    \/ SocketHandshake
    \/ SocketError
    \/ SocketClose
    \/ ReconnectTimer
    \/ Logout
    \/ ClerkSignOutDone
    \/ ClerkSignIn
    \/ ClerkEmit
    \/ LoadResume

SpecSession == Init /\ [][NextSession]_vars

\* One signed-in user chatting: the identity provider and the candidate-data
\* fetch stay silent, and the page does not call connect() itself.
NextChat ==
    \/ InitClerk
    \/ ConnectResume
    \/ SocketOpen
    \/ SocketMessage
    \/ SocketError
    \/ SocketClose
    \/ ReconnectTimer
    \/ SetLanguage
    \/ SendMessage
    \/ NewConversation

SpecChat == Init /\ [][NextChat]_vars

\* The sidebar: the candidate's data arrive and the user switches language.
NextSidebar ==
    \/ InitClerk
    \/ LoadOk
    \/ SetLanguage

SpecSidebar == Init /\ [][NextSidebar]_vars

\* A backend that never sends an envelope, under what the runtime guarantees:
\* a pending getToken() settles, a connecting socket opens unless it fails
\* first, a pending timer fires.  The network and the user owe nothing: no
\* close and no click is forced.
NextSilent ==
    \/ InitClerk
    \/ ConnectResume
    \/ SocketOpen
    \/ SocketError
    \/ SocketClose
    \/ ReconnectTimer
    \/ SetLanguage
    \/ SendMessage
    \/ NewConversation

SpecSilent ==
    /\ Init /\ [][NextSilent]_vars
    /\ WF_vars(InitClerk)
    /\ WF_vars(ConnectResume)
    /\ WF_vars(SocketOpen)
    /\ WF_vars(ReconnectTimer)


\* ---------------------------------------------------------------- claims
\* A ConnectionHandle: a WebSocket created and not yet closed.
Live(i)   == sockets[i].state # "CLOSED"
LiveCount == Cardinality({i \in DOMAIN sockets : Live(i)})

\* The session is Ready: auth_success was the last handshake envelope received
\* on the current, open connection.
Ready ==
    /\ socket # 0
    /\ sockets[socket].state = "OPEN"
    /\ sockets[socket].hs = "success"

\* The session is Unauthenticated.
Unauthenticated ==
    /\ ~isConnecting /\ ~isConnected
    /\ LiveCount = 0

\* The program's own state: everything but the history variables.
progVars == <<socket, clerkUser, language, isConnected, isConnecting,
              clerkMounted, authHandled, screen, authErrorShown, inputEnabled,
              messages, candidateData, sidebarUserRole, progress, verticalTimeline,
              sockets, connectCalls, loads, timers, initDone,
              clerkLoaded, clerkSession, listening, pendingSignOuts, nextFetch,
              signOutCalls, uiEvents>>

\* Envelopes of one type the sockets have carried.
RECURSIVE CountType(_, _)
CountType(i, type) ==
    IF i = 0 THEN 0
    ELSE CountType(i - 1, type)
         + Cardinality({j \in DOMAIN sockets[i].outbox : sockets[i].outbox[j].type = type})
MessagesSent    == CountType(Len(sockets), "message")
SetLanguageSent == CountType(Len(sockets), "set_language")
AuthSent        == CountType(Len(sockets), "auth")

\* C1: at most one ConnectionHandle exists at any time, and a connect() issued
\* while the session is connecting or connected creates no socket and changes
\* no state.
C1_OneHandle ==
    [][/\ LiveCount' <= 1
       /\ (lastOp' = "connect" /\ (isConnecting \/ isConnected)) => UNCHANGED progVars]_vars

\* C1 witness: connect() was issued while connected, with the one handle open.
C1_Witness == lastOp = "connect" /\ isConnected /\ LiveCount = 1

\* C2: send(message) in any state other than Ready produces no outbound
\* message envelope.
C2_SendOnlyWhenReady == [][MessagesSent' > MessagesSent => Ready]_vars

\* C3: an identity-unverified outcome has signOut invoked exactly once for the
\* sign-in cycle, and no reconnect is scheduled afterwards in that cycle.
C3_SignOutOnceNoRetry ==
    [][/\ signOutCalls' <= 1
       /\ signOutCalls >= 1 => timers' <= timers]_vars

\* C4: after credential present -> handle opens -> auth_failed with reason
\* email_not_registered, once the sign-out it asked for has completed the
\* session is reset: handle closed, neither connecting nor connected, the
\* signed-in identity cleared, no reconnect timer.
C4_ResetAfterAuthFailed ==
    (/\ Len(sockets) = 1
     /\ sockets[1].hs = "email_not_registered"
     /\ pendingSignOuts = 0 /\ ~clerkSession)
    => (/\ sockets[1].state \in {"CLOSING", "CLOSED"}
        /\ ~isConnected /\ ~isConnecting
        /\ ~clerkUser
        /\ timers = 0)

\* C5: at most one reconnect timer is pending at any time.
C5_OneTimer == timers <= 1

\* C6: a sign-out event from the identity provider, in any session state,
\* closes the connection handle, clears any reconnect timer and resets the
\* session to Unauthenticated within the same handler.
C6_SignOutResets ==
    [][(clerkSession /\ ~clerkSession')
       => (/\ \A i \in DOMAIN sockets' : sockets'[i].state \in {"CLOSING", "CLOSED"}
           /\ timers' = 0
           /\ ~isConnected' /\ ~isConnecting'
           /\ ~clerkUser')]_vars

\* C7: when the token provider returns no credential, connect() creates no
\* ConnectionHandle and, once it has returned, the session is Unauthenticated
\* and no error was raised.  The three ways connect() gets no credential: the
\* awaited token is null, or connect() is called by the page or by the
\* reconnect timer with no Clerk session.
NoCredentialStep ==
    \/ lastOp' = "connectNoToken"
    \/ /\ lastOp' = "connect"
       /\ ~isConnecting /\ ~isConnected /\ ~HasSession(Cur)
    \/ /\ timers' = timers - 1
       /\ clerkUser /\ ~isConnecting /\ ~isConnected /\ ~HasSession(Cur)
C7_NoCredential ==
    [][NoCredentialStep
       => (/\ sockets' = sockets /\ socket' = socket
           /\ Unauthenticated'
           /\ ~threw')]_vars

\* C7 witness: a signed-in user's connect() has returned for want of a token.
C7_Witness == lastOp = "connectNoToken" /\ clerkUser /\ Unauthenticated

\* C8: after credential present -> handle opens -> auth_success ->
\* send("hello") -> inbound message "hi", the page has been shown exactly
\* ready and then the received "hi", and the socket has carried exactly the
\* auth envelope followed by one message envelope "hello".
C8_Scenario ==
    scen = Len(Scenario)
    => (/\ uiEvents = <<[type |-> "ready", content |-> ""],
                        [type |-> "messageReceived", content |-> "hi"]>>
        /\ socket # 0
        /\ Len(sockets[socket].outbox) = 2
        /\ sockets[socket].outbox[1] = AuthEnvelope(sockets[socket].token, language)
        /\ sockets[socket].outbox[2] = MessageEnvelope("hello"))

\* C8 witness: the scenario has run to its end.
C8_Witness == scen = Len(Scenario)

\* C9: setLanguage(lang) sets the language; it sends a set_language envelope
\* if and only if the session is Ready; it changes no connection state, opens
\* no connection and sends no auth envelope.  Stated of the steps that change
\* the language or send set_language, which only setLanguage does.
C9_SetLanguage ==
    [][/\ SetLanguageSent' > SetLanguageSent => Ready
       /\ (language' # language /\ Ready) => SetLanguageSent' > SetLanguageSent
       /\ language' # language =>
             /\ UNCHANGED <<socket, isConnected, isConnecting, connectCalls, timers>>
             /\ Len(sockets') = Len(sockets)
             /\ \A i \in DOMAIN sockets : sockets'[i].state = sockets[i].state
             /\ AuthSent' = AuthSent]_vars

\* C10: no inbound message or typing envelope received before the
\* connection's handshake resolved with auth_success is delivered to the page.
C10_NoDeliveryBeforeAuth ==
    [][(/\ Len(uiEvents') > Len(uiEvents)
        /\ uiEvents'[Len(uiEvents')].type \in {"messageReceived", "typing"})
       => \E i \in DOMAIN sockets : sockets[i].hs = "success"]_vars

\* C11: when the session was reset (sign-out) while connect() was suspended
\* waiting for the credential, the credential that resolves later is
\* discarded: no ConnectionHandle is created.  Stated of every step that
\* creates a socket: the identity provider's session is there.
C11_StaleCredentialDiscarded ==
    [][Len(sockets') > Len(sockets) => clerkSession]_vars

\* A reconnection is under way: a live socket, a socket whose close event is
\* about to be delivered, a pending reconnect timer or a connect() waiting for
\* its credential.
Reconnecting == LiveCount > 0 \/ ErrPending \/ timers > 0 \/ connectCalls # <<>>

\* The user is signed in and no identity-unverified outcome was reported.
SignedIn == clerkSession /\ clerkUser /\ signOutCalls = 0 /\ pendingSignOuts = 0

\* C12: while the user remains signed in, reconnection never stops: once a
\* connection has existed, no step taken with the user signed in ends the
\* reconnection that was under way without a connection being established.
C12_ReconnectNeverStops ==
    [][(SignedIn /\ SignedIn' /\ Len(sockets) > 0 /\ Reconnecting) => Reconnecting']_vars

\* The session is Authenticating: the auth envelope went out on the current,
\* open connection and no auth_success / auth_failed has come back.
Authenticating ==
    /\ socket # 0
    /\ sockets[socket].state = "OPEN"
    /\ sockets[socket].outbox # <<>>
    /\ sockets[socket].hs = "none"

\* C13: the session does not stay in Authenticating forever, even when the
\* backend sends nothing and the connection never closes.
C13_HandshakeResolves == Authenticating ~> ~Authenticating

\* C14: a message passed to send() while the session is not Ready is neither
\* transmitted nor logged.  Stated of every step that appends a user message
\* to the message log, which only sendMessage does: the session is Ready.
C14_NoSendUnlessReady ==
    [][(/\ Len(messages') > Len(messages)
        /\ messages'[Len(messages')][1] = "user") => Ready]_vars

\* Auth envelopes in an outbox.
AuthCount(outbox) == Cardinality({j \in DOMAIN outbox : outbox[j].type = "auth"})

\* C15: on every connection open exactly one auth envelope is sent on that
\* connection, with its token and the language current at the moment of
\* opening, and it is the first envelope of the connection: a socket that has
\* not opened has carried nothing, the step that opens a socket leaves its
\* outbox holding the auth envelope alone, and whatever an outbox holds starts
\* with its only auth envelope.
C15_AuthFirst ==
    [][\A i \in DOMAIN sockets' :
          /\ sockets'[i].state = "CONNECTING" => sockets'[i].outbox = <<>>
          /\ sockets'[i].outbox # <<>> =>
                /\ sockets'[i].outbox[1].type = "auth"
                /\ AuthCount(sockets'[i].outbox) = 1
          /\ (/\ i \in DOMAIN sockets
              /\ sockets[i].state = "CONNECTING"
              /\ sockets'[i].state = "OPEN")
             => sockets'[i].outbox = <<AuthEnvelope(sockets[i].token, language)>>]_vars

\* C15 witness: an open connection, opened while the language was "es", has
\* carried its auth envelope and then a message.
C15_Witness ==
    \E i \in DOMAIN sockets :
        /\ sockets[i].state = "OPEN"
        /\ Len(sockets[i].outbox) = 2
        /\ sockets[i].outbox[1] = AuthEnvelope(sockets[i].token, "es")
        /\ sockets[i].outbox[2].type = "message"

\* The fetches connect() calls are waiting for.
PendingFetches == {connectCalls[k] : k \in DOMAIN connectCalls}

\* C16: every connection attempt fetches its own credential.  The socket a
\* step creates takes the token of a fetch that was pending and is pending no
\* more; the auth envelope of a connection carries that token; no two
\* connections, closed ones included, have the same token, and no fetch still
\* pending is one a connection already used.
C16_FreshCredential ==
    [][/\ Len(sockets') > Len(sockets) =>
            /\ sockets'[Len(sockets')].token \in PendingFetches
            /\ sockets'[Len(sockets')].token \notin PendingFetches'
       /\ \A i \in DOMAIN sockets' :
            /\ sockets'[i].outbox # <<>> =>
                  sockets'[i].outbox[1].token = sockets'[i].token
            /\ sockets'[i].token \notin PendingFetches'
            /\ \A j \in DOMAIN sockets' :
                  i # j => sockets'[i].token # sockets'[j].token
       /\ Cardinality(PendingFetches') = Len(connectCalls')]_vars

\* C16 witness: a second connection is open and has sent its auth envelope
\* with its own token, which is not the token of the first.
C16_Witness ==
    /\ Len(sockets) = 2
    /\ sockets[2].state = "OPEN"
    /\ sockets[2].outbox # <<>>
    /\ sockets[2].outbox[1].token = sockets[2].token
    /\ sockets[1].token # sockets[2].token
    /\ sockets[1].token # 0

\* C17: an undecodable inbound payload is dropped without effect: the handler
\* does not fail, and the flags, the socket, the connections, the message log
\* and the language are as they were.
C17_MalformedDropped ==
    [][lastOp' = "onmessage:malformed" =>
          /\ ~threw'
          /\ UNCHANGED <<isConnected, isConnecting, socket, sockets, messages, language>>]_vars

\* The index of a stage in the vocabulary, -1 for a stage that is absent,
\* empty or not in it.
StageIndex(st) ==
    IF st.given /\ \E i \in DOMAIN APPLICATION_STAGES : APPLICATION_STAGES[i] = st.key
    THEN (CHOOSE i \in DOMAIN APPLICATION_STAGES : APPLICATION_STAGES[i] = st.key) - 1
    ELSE -1

\* C18: the timeline has the 8 rows of the vocabulary; the rows completed are
\* exactly those before the index of the candidate's stage, the row active is
\* exactly the one at that index, and a stage that is absent, empty or unknown
\* marks none and raises no error; "Candidate Interview" gives row 0
\* completed, row 1 active, rows 2-7 neither.
C18_TimelineProjection ==
    /\ Len(verticalTimeline) = 8
    /\ \A i \in DOMAIN verticalTimeline :
          /\ verticalTimeline[i].completed <=> i - 1 < StageIndex(candidateData.stage)
          /\ verticalTimeline[i].active <=> i - 1 = StageIndex(candidateData.stage)
    /\ candidateData.stage = [given |-> TRUE, key |-> "Candidate Interview"] =>
          /\ verticalTimeline[1] = [completed |-> TRUE, active |-> FALSE]
          /\ verticalTimeline[2] = [completed |-> FALSE, active |-> TRUE]
          /\ \A i \in 3..8 : verticalTimeline[i] = [completed |-> FALSE, active |-> FALSE]
    /\ StageIndex(candidateData.stage) = -1 =>
          \A i \in DOMAIN verticalTimeline :
              ~verticalTimeline[i].completed /\ ~verticalTimeline[i].active
    /\ ~threw

\* C18 witness: the data said "Candidate Interview" and the timeline shows its
\* second row active.
C18_Witness ==
    /\ candidateData.loaded
    /\ candidateData.stage.key = "Candidate Interview"
    /\ verticalTimeline[2].active

\* C19: isConnecting and isConnected are never both true, and isConnected
\* implies that this.socket is not null.
C19_FlagsConsistent ==
    /\ ~(isConnecting /\ isConnected)
    /\ isConnected => socket # 0

\* C19 witness: reconnected: the second socket is open, isConnected is true
\* and isConnecting is false.
C19_Witness ==
    /\ isConnected /\ ~isConnecting
    /\ socket = 2
    /\ sockets[2].state = "OPEN"

\* C20: a connect() that obtains no credential leaves the system quiescent:
\* isConnecting is false, no socket is created, the attempt schedules no
\* reconnect timer and leaves no fetch pending; and from a state with no
\* timer, no fetch and no socket to close, the only steps that start a
\* connection attempt are a sign-in and a connect() call by the page.
C20_QuiescentWithoutCredential ==
    [][/\ NoCredentialStep =>
            /\ ~isConnecting'
            /\ Len(sockets') = Len(sockets)
            /\ timers' <= timers
            /\ Len(connectCalls') <= Len(connectCalls)
       /\ (/\ timers = 0 /\ connectCalls = <<>> /\ LiveCount = 0 /\ ~ErrPending
           /\ connectCalls' # <<>>)
          => (lastOp' = "connect" \/ (~authHandled /\ authHandled'))]_vars

\* C20 witness: the reconnect after a closed connection got no credential, and
\* nothing is pending.
C20_Witness ==
    /\ lastOp = "connectNoToken"
    /\ Len(sockets) = 1 /\ LiveCount = 0
    /\ timers = 0 /\ connectCalls = <<>>
    /\ ~isConnecting

\* Socket i has just received an auth_failed whose reason is not
\* email_not_registered.
OtherReasonOn(i) ==
    /\ i \in DOMAIN sockets
    /\ sockets[i].hs # "other"
    /\ sockets'[i].hs = "other"

\* C21: an auth_failed envelope with a reason other than email_not_registered
\* changes nothing: the handler does not fail, signOut is not invoked, the
\* connection stays as it was, isConnected stays true, no reconnect is
\* scheduled and nothing else of the program's state moves; and a send() on a
\* connection that has received it still logs the message and emits its
\* envelope on that connection.
C21_OtherReasonIgnored ==
    [][/\ \A i \in DOMAIN sockets' :
            OtherReasonOn(i) =>
               /\ sockets' = [sockets EXCEPT ![i].hs = "other"]
               /\ ~threw'
               /\ UNCHANGED <<socket, clerkUser, language, isConnected, isConnecting,
                              clerkMounted, authHandled, screen, authErrorShown,
                              inputEnabled, messages, candidateData, sidebarUserRole,
                              progress, verticalTimeline, connectCalls, loads, timers,
                              initDone, clerkLoaded, clerkSession, listening,
                              pendingSignOuts, nextFetch, signOutCalls, uiEvents>>
       /\ (/\ socket # 0
           /\ sockets[socket].state = "OPEN"
           /\ sockets[socket].hs = "other"
           /\ Len(messages') > Len(messages)
           /\ messages'[Len(messages')][1] = "user")
          => /\ socket' = socket
             /\ sockets'[socket].outbox =
                   Append(sockets[socket].outbox,
                          MessageEnvelope(messages'[Len(messages')][2]))]_vars

\* C21 witness: the open connection has received auth_failed with another
\* reason; it is still the connected one, nobody was signed out, no timer is
\* pending, and it has carried a message after its auth envelope.
C21_Witness ==
    /\ socket # 0
    /\ sockets[socket].state = "OPEN"
    /\ sockets[socket].hs = "other"
    /\ isConnected
    /\ signOutCalls = 0 /\ timers = 0
    /\ Len(sockets[socket].outbox) = 2
    /\ sockets[socket].outbox[2] = MessageEnvelope("hello")

====
